---- MODULE Spec2Model ----
(***************************************************************************)
(* Model of sais-rs: suffix array construction by induced sorting          *)
(* (src/src/sais.rs), the index abstraction (src/src/suffix_index.rs) and  *)
(* the in-place radix suffix sort (src/src/radix_sort.rs).                 *)
(*                                                                         *)
(* Arrays are TLA+ sequences; the code's 0-based index i is At(s, i).      *)
(* A call of the public entry sais::sort is run as a state machine: one    *)
(* action per block of induced_sort, with an explicit stack of frames for  *)
(* the recursion.  The loops inside a block are RECURSIVE operators that   *)
(* follow the code statement by statement, including every bounds check    *)
(* and every index-typed addition and subtraction.  A for loop is For or   *)
(* ForRev applied to the operator that is its body.                        *)
(***************************************************************************)
EXTENDS Integers, Sequences, FiniteSets, TLC

VARIABLES
    text,       \* the text T handed to sais::sort
    debug,      \* the build: TRUE = debug_assertions and overflow checks on
    bits,       \* width w of the index type I of this run
    SA,         \* suffix_array
    types,      \* the type array
    B,          \* buckets: Vec<I>
    stack,      \* frames of induced_sort, innermost last
    outcome,    \* "init" | "running" | "returned" | "panicked"
    wrapped,    \* an index-typed + or - wrapped (release build)
    entry,      \* SA, types and B as they were when sort was called
    calls,      \* history: one record per recursive call of induced_sort
    radix,      \* result of radix_sort::make_suffix_array(text)
    radix_all   \* result of radix_sort::sort on the indices 0..=n

vars == <<text, debug, bits, SA, types, B, stack, outcome, wrapped, entry,
          calls, radix, radix_all>>

(***************************************************************************)
(* Bounds of the model.                                                    *)
(***************************************************************************)
\* every text over {0, 1} up to this length is a run
MaxLen == 7
\* every text over the whole alphabet up to this length is a run
ShortLen == 3
\* largest symbol of the outer alphabet: stands for u8::MAX (C::MAX)
CharMax == 2
\* width of the wide index type every narrow run is compared with
WideBits == 6

(***************************************************************************)
(* Sequences with the code's 0-based indices.                              *)
(***************************************************************************)
At(s, i) == s[i + 1]
Set(s, i, v) == [s EXCEPT ![i + 1] = v]
Fill(len, v) == [i \in 1..len |-> v]
Prefix(s, len) == SubSeq(s, 1, len)
Suffix(s, from) == SubSeq(s, from + 1, Len(s))
\* write a slice back over the front of the array it was borrowed from
Splice(s, front) == front \o Suffix(s, Len(front))
\* write a slice back over s[from..from + slice.len())
Patch(s, from, slice) == Prefix(s, from) \o slice \o Suffix(s, from + Len(slice))
\* Vec::resize(new_len, value)
Resize(s, len, v) == IF len <= Len(s) THEN Prefix(s, len)
                     ELSE s \o Fill(len - Len(s), v)

\* for i in lo..hi { st = Body(st, i) }: the iterations in ascending order,
\* the first half of the range, then the second.  (The test on `half` has TLC
\* evaluate the first half before it enters the second.)
RECURSIVE For(_, _, _, _)
For(Body(_, _), st, lo, hi) ==
    IF hi <= lo THEN st
    ELSE IF hi = lo + 1 THEN Body(st, lo)
    ELSE LET half == For(Body, st, lo, (lo + hi) \div 2) IN
         IF half = half THEN For(Body, half, (lo + hi) \div 2, hi) ELSE st

\* for i in (lo..hi).rev() { st = Body(st, i) }: in descending order
RECURSIVE ForRev(_, _, _, _)
ForRev(Body(_, _), st, lo, hi) ==
    IF hi <= lo THEN st
    ELSE IF hi = lo + 1 THEN Body(st, lo)
    ELSE LET half == ForRev(Body, st, (lo + hi) \div 2, hi) IN
         IF half = half THEN ForRev(Body, half, lo, (lo + hi) \div 2) ELSE st

\* while Cond(st) { st = Body(st) }, run `chunk` iterations at a time
RECURSIVE While(_, _, _, _)
While(Cond(_), Body(_), st, chunk) ==
    IF ~Cond(st) THEN st
    ELSE While(Cond, Body,
               For(LAMBDA s, i : IF Cond(s) THEN Body(s) ELSE s, st, 0, chunk),
               chunk)

(***************************************************************************)
(* suffix_index.rs: the index type I of width `bits`.                      *)
(***************************************************************************)
\* the modulus of a type that keeps one of its bits for the sign
Modulus_signed == 2 ^ (bits - 1)

Modulus == 2 ^ bits
\* I::MAX, the NIL sentinel
IMAX == Modulus - 1
\* from_index: debug_assert!(value <= MAX); value as Self
from_index(v) == v % Modulus
from_index_ok(v) == ~debug \/ v <= IMAX
\* += and -= on I: overflow panics in a debug build and wraps in release
AddI(a, b) == [val  |-> (a + b) % Modulus,
               ok   |-> ~(debug /\ a + b > IMAX),
               wrap |-> a + b > IMAX]
SubI(a, b) == [val  |-> (a - b) % Modulus,
               ok   |-> ~(debug /\ a - b < 0),
               wrap |-> a - b < 0]

(***************************************************************************)
(* sais.rs: classification.                                                *)
(***************************************************************************)
\* types[i] = match text[i].cmp(&text[i + 1]) { Less => S, Greater => L,
\*                                               Equal => types[i + 1] }
classify_at(txt, ty, i) ==
    Set(ty, i, IF At(txt, i) < At(txt, i + 1) THEN "S"
               ELSE IF At(txt, i) > At(txt, i + 1) THEN "L"
               ELSE At(ty, i + 1))

\* for i in (0..types.len() - 1).rev(); types.len() >= 1 at every call
classify_sub_slice(txt, ty) ==
    ForRev(LAMBDA t, i : classify_at(txt, t, i), ty, 0, Len(ty) - 1)

\* *types.last_mut().unwrap() = L; classify_sub_slice
classify(txt, ty) == classify_sub_slice(txt, Set(ty, Len(ty) - 1, "L"))

\* is_lms looking at the type of the position only, not of its left neighbour
is_lms_any_s(suffix, ty) == At(ty, suffix) = "S"

is_lms(suffix, ty) == At(ty, suffix - 1) = "L" /\ At(ty, suffix) = "S"

(***************************************************************************)
(* sais.rs: the bucket engine.  A machine record m carries the arrays a    *)
(* block works on: m.sa (the suffix slice), m.b (the buckets), m.ok        *)
(* (FALSE once a panic happened: nothing is written after it) and m.wrap.  *)
(***************************************************************************)
Machine(sa, b) == [sa |-> sa, b |-> b, ok |-> TRUE, wrap |-> FALSE]
Panic(m) == [m EXCEPT !.ok = FALSE]

\* buckets[c.as_index()] += I::from_index(1)
count_at(txt, m, i) ==
    IF ~m.ok THEN m
    ELSE IF At(txt, i) >= Len(m.b) THEN Panic(m)
    ELSE LET s == AddI(At(m.b, At(txt, i)), 1) IN
         IF ~s.ok THEN Panic(m)
         ELSE [m EXCEPT !.b = Set(m.b, At(txt, i), s.val),
                        !.wrap = @ \/ s.wrap]

\* buckets_count without its debug assertion
buckets_count_unchecked(txt, m) ==
    For(LAMBDA st, i : count_at(txt, st, i), m, 0, Len(txt))

buckets_count(txt, m) ==
    IF debug /\ \E i \in 1..Len(m.b) : m.b[i] # 0 THEN Panic(m)
    ELSE For(LAMBDA st, i : count_at(txt, st, i), m, 0, Len(txt))

\* *value += sum; sum = *value.  st = [m, sum]
ends_at(st, i) ==
    IF ~st.m.ok THEN st
    ELSE LET s == AddI(At(st.m.b, i), st.sum) IN
         IF ~s.ok THEN [st EXCEPT !.m = Panic(@)]
         ELSE [m   |-> [st.m EXCEPT !.b = Set(st.m.b, i, s.val),
                                    !.wrap = @ \/ s.wrap],
               sum |-> s.val]

bucket_ends(m) == For(ends_at, [m |-> m, sum |-> 0], 0, Len(m.b)).m

\* let old = replace(bucket, sum); sum += old.  st = [m, sum]
starts_at(st, i) ==
    IF ~st.m.ok THEN st
    ELSE LET s == AddI(st.sum, At(st.m.b, i)) IN
         IF ~s.ok THEN [st EXCEPT !.m = Panic([@ EXCEPT !.b = Set(@, i, st.sum)])]
         ELSE [m   |-> [st.m EXCEPT !.b = Set(st.m.b, i, st.sum),
                                    !.wrap = @ \/ s.wrap],
               sum |-> s.val]

bucket_starts(m) == For(starts_at, [m |-> m, sum |-> 0], 0, Len(m.b)).m

make_starts(txt, m) == bucket_starts(buckets_count(txt, m))
make_ends(txt, m) == bucket_ends(buckets_count(txt, m))

into_cleared(m) == IF m.ok THEN [m EXCEPT !.b = Fill(Len(m.b), 0)] ELSE m

\* suffixes[buckets.suffix_bucket_next(suffix)] = suffix
push_front(txt, m, suffix) ==
    IF ~m.ok THEN m
    ELSE IF suffix >= Len(txt) THEN Panic(m)
    ELSE LET bucket == At(txt, suffix) IN
         IF bucket >= Len(m.b) THEN Panic(m)
         ELSE LET index == At(m.b, bucket)
                  s == AddI(index, 1)
              IN  IF ~s.ok THEN Panic(m)
                  ELSE LET m1 == [m EXCEPT !.b = Set(m.b, bucket, s.val),
                                           !.wrap = @ \/ s.wrap]
                       IN  IF index >= Len(m.sa) THEN Panic(m1)
                           ELSE [m1 EXCEPT !.sa = Set(m.sa, index, suffix)]

\* suffixes[buckets.suffix_bucket_next_reverse(suffix)] = suffix
push_back(txt, m, suffix) ==
    IF ~m.ok THEN m
    ELSE IF suffix >= Len(txt) THEN Panic(m)
    ELSE LET bucket == At(txt, suffix) IN
         IF bucket >= Len(m.b) THEN Panic(m)
         ELSE LET s == SubI(At(m.b, bucket), 1) IN
              IF ~s.ok THEN Panic(m)
              ELSE LET m1 == [m EXCEPT !.b = Set(m.b, bucket, s.val),
                                       !.wrap = @ \/ s.wrap]
                   IN  IF s.val >= Len(m.sa) THEN Panic(m1)
                       ELSE [m1 EXCEPT !.sa = Set(m.sa, s.val, suffix)]

(***************************************************************************)
(* sais.rs: induce_ls, the two induction passes.                           *)
(***************************************************************************)
\* l_pass_at pushing the predecessor whatever its type
l_pass_at_any_type(txt, ty, m, i) ==
    IF ~m.ok THEN m
    ELSE IF At(m.sa, i) = IMAX \/ At(m.sa, i) = 0 THEN m
    ELSE IF At(m.sa, i) - 1 >= Len(ty) THEN Panic(m)
    ELSE push_front(txt, m, At(m.sa, i) - 1)

\* the body of the first loop: suffix_array[i] induces an L suffix
l_pass_at(txt, ty, m, i) ==
    IF ~m.ok THEN m
    ELSE IF At(m.sa, i) = IMAX \/ At(m.sa, i) = 0 THEN m
    ELSE IF At(m.sa, i) - 1 >= Len(ty) THEN Panic(m)
    ELSE IF At(ty, At(m.sa, i) - 1) = "L"
    THEN push_front(txt, m, At(m.sa, i) - 1)
    ELSE m

l_pass(txt, ty, m) ==
    For(LAMBDA st, i : l_pass_at(txt, ty, st, i), m, 0, Len(m.sa))

\* s_pass_at testing the type of the suffix itself, not of its predecessor
s_pass_at_own_type(txt, ty, m, i) ==
    IF ~m.ok THEN m
    ELSE IF At(m.sa, i) = IMAX \/ At(m.sa, i) = 0 THEN m
    ELSE IF At(m.sa, i) - 1 >= Len(ty) THEN Panic(m)
    ELSE IF At(ty, At(m.sa, i)) = "S"
    THEN push_back(txt, m, At(m.sa, i) - 1)
    ELSE m

\* the body of the second loop: suffix_array[i] induces an S suffix
s_pass_at(txt, ty, m, i) ==
    IF ~m.ok THEN m
    ELSE IF At(m.sa, i) = IMAX \/ At(m.sa, i) = 0 THEN m
    ELSE IF At(m.sa, i) - 1 >= Len(ty) THEN Panic(m)
    ELSE IF At(ty, At(m.sa, i) - 1) = "S"
    THEN push_back(txt, m, At(m.sa, i) - 1)
    ELSE m

s_pass(txt, ty, m) ==
    ForRev(LAMBDA st, i : s_pass_at(txt, ty, st, i), m, 0, Len(m.sa))

induce_ls(txt, ty, m) ==
    LET m1   == make_starts(txt, m)
        last == from_index(Len(m.sa) - 1)
        m2   == IF ~m1.ok THEN m1
                ELSE IF ~from_index_ok(Len(m.sa) - 1) THEN Panic(m1)
                ELSE IF At(ty, last) = "L" THEN push_front(txt, m1, last)
                ELSE m1
        m3   == l_pass(txt, ty, m2)
        m4   == make_ends(txt, into_cleared(m3))
        m5   == s_pass(txt, ty, m4)
    IN  into_cleared(m5)

(***************************************************************************)
(* sais.rs: LMS substrings and the reducer.                                *)
(***************************************************************************)
\* one past the last position of the LMS substring starting at index: the
\* first i in index + 1..text.len() with is_lms(i, types), inclusive, or the
\* end of the text
lms_substring_end(index, txt, ty) ==
    LET later == {i \in (index + 1)..(Len(txt) - 1) : is_lms(i, ty)} IN
    IF later = {} THEN Len(txt)
    ELSE (CHOOSE i \in later : \A j \in later : i <= j) + 1

\* &text[index..=i] or &text[index..]
lms_substring(index, txt, ty) ==
    SubSeq(txt, index + 1, lms_substring_end(index, txt, ty))

\* &types[suffix..suffix + str.len()]
lms_substring_types(index, txt, ty) ==
    SubSeq(ty, index + 1, lms_substring_end(index, txt, ty))

\* lms_substrings_eq comparing the symbols only, not the types
lms_substrings_eq_symbols(left, left_types, right, right_types) == left = right

lms_substrings_eq(left, left_types, right, right_types) ==
    IF Len(left) # Len(right) THEN FALSE
    ELSE \A i \in 1..Len(left) :
             ~(left[i] # right[i] \/ left_types[i] # right_types[i])

\* the body of retain's loop; st = [values, count, ok], count = write_offset.
\* The closure is given by two functions on the values of the index type:
\* Pred[v] is its result, Ok[v] is FALSE where evaluating it panics.
retain_at(Pred, Ok, st, i) ==
    IF ~st.ok THEN st
    ELSE IF ~Ok[At(st.values, i)] THEN [st EXCEPT !.ok = FALSE]
    ELSE IF Pred[At(st.values, i)]
    THEN [st EXCEPT !.values = Set(@, st.count, At(st.values, i)),
                    !.count = @ + 1]
    ELSE st

\* retain: move the values matching the predicate to the front, in order; the
\* slots behind them keep what they held
retain(values, Pred, Ok) ==
    For(LAMBDA st, i : retain_at(Pred, Ok, st, i),
        [values |-> values, count |-> 0, ok |-> TRUE], 0, Len(values))

\* the body of the naming loop of reduce, at lms_suffixes_sorted[j], j >= 1;
\* st = [rest, order, ok]
name_at(txt, ty, lms, st, j) ==
    IF ~st.ok THEN st
    ELSE LET suffix == At(lms, j)
             prev   == At(lms, j - 1)
             same   == lms_substrings_eq(lms_substring(prev, txt, ty),
                                         lms_substring_types(prev, txt, ty),
                                         lms_substring(suffix, txt, ty),
                                         lms_substring_types(suffix, txt, ty))
             order  == IF same THEN st.order ELSE st.order + 1
         IN  IF suffix \div 2 >= Len(st.rest) \/ ~from_index_ok(order)
             THEN [st EXCEPT !.ok = FALSE]
             ELSE [st EXCEPT !.rest = Set(st.rest, suffix \div 2,
                                         from_index(order)),
                             !.order = order]

\* Reduced { lms_suffixes_sorted, reduced_str, max_order } laid out in the
\* suffix slice: lms_suffixes_sorted = sa[0..k), reduced_str = sa[k..2k)
Reduced(m, k, rlen, max_order) ==
    [m |-> m, some |-> TRUE, k |-> k, rlen |-> rlen, max_order |-> max_order]
NoReduced(m) ==
    [m |-> m, some |-> FALSE, k |-> 0, rlen |-> 0, max_order |-> 0]

reduce(txt, ty, m) ==
    LET n     == Len(m.sa)
        r1    == retain(m.sa, [v \in 0..IMAX |-> v # 0 /\ is_lms(v, ty)],
                        [v \in 0..IMAX |-> v = 0 \/ v < Len(ty)])
        k     == r1.count
        lms   == Prefix(r1.values, k)
        first == At(lms, 0)
        rest0 == Set(Fill(n - k, IMAX), first \div 2, from_index(0))
        st    == For(LAMBDA t, j : name_at(txt, ty, lms, t, j),
                     [rest |-> rest0, order |-> 0, ok |-> TRUE], 1, k)
        r2    == retain(st.rest, [v \in 0..IMAX |-> v # IMAX],
                        [v \in 0..IMAX |-> TRUE])
    IN  IF ~r1.ok THEN NoReduced(Panic([m EXCEPT !.sa = r1.values]))
        ELSE IF debug /\ (k = 0 \/ k > Len(txt) \div 2)
        THEN NoReduced(Panic([m EXCEPT !.sa = r1.values]))
        ELSE IF k = 0
        THEN NoReduced(Panic([m EXCEPT !.sa = Fill(n, IMAX)]))
        ELSE IF first \div 2 >= n - k
        THEN NoReduced(Panic([m EXCEPT !.sa = lms \o Fill(n - k, IMAX)]))
        ELSE IF ~st.ok THEN NoReduced(Panic([m EXCEPT !.sa = lms \o st.rest]))
        ELSE Reduced([m EXCEPT !.sa = lms \o r2.values], k, r2.count, st.order)

(***************************************************************************)
(* sais.rs: induce, the LMS seeding and the first induction.               *)
(***************************************************************************)
\* the body of the loop for suffix in 1..types.len(): put an LMS position at
\* the tail of its bucket; st = [m, lms_count, last_lms]
seed_at(txt, ty, st, suffix) ==
    IF ~st.m.ok THEN st
    ELSE IF ~from_index_ok(suffix) THEN [st EXCEPT !.m = Panic(st.m)]
    ELSE IF is_lms(from_index(suffix), ty)
    THEN [m |-> push_back(txt, st.m, from_index(suffix)),
          lms_count |-> st.lms_count + 1,
          last_lms |-> from_index(suffix)]
    ELSE st

\* the first part of induce: zero the suffix slice and put every LMS position
\* at the tail of its bucket; the result is [m, lms_count, last_lms]
seed(txt, ty, m) ==
    LET m0 == [m EXCEPT !.sa = Fill(Len(m.sa), from_index(0))]
        st == For(LAMBDA t, suffix : seed_at(txt, ty, t, suffix),
                  [m |-> make_ends(txt, m0), lms_count |-> 0, last_lms |-> 0],
                  1, Len(ty))
    IN  [st EXCEPT !.m = into_cleared(st.m)]

induce(txt, ty, m) ==
    LET st == seed(txt, ty, m)
        m1 == st.m
    IN  IF ~m1.ok THEN NoReduced(m1)
        ELSE IF st.lms_count > 1
        THEN LET m2 == induce_ls(txt, ty, m1) IN
             IF ~m2.ok THEN NoReduced(m2)
             ELSE LET r == reduce(txt, ty, m2) IN
                  IF r.m.ok /\ debug /\ r.k # st.lms_count
                  THEN NoReduced(Panic(r.m)) ELSE r
        ELSE IF st.lms_count = 1
        THEN Reduced([m1 EXCEPT !.sa = Set(Set(m1.sa, 0, st.last_lms),
                                           1, from_index(0))], 1, 1, 0)
        ELSE NoReduced(m1)

(***************************************************************************)
(* radix_sort.rs.  A result r carries the slice (r.indices) and the events *)
(* of the run (r.events): "panic" for a failed assertion or checked index, *)
(* "ub" for an unchecked access out of range, "multi_empty" when a scan    *)
(* met more than one index equal to the length of the current text.        *)
(***************************************************************************)
\* const BUCKETS: usize = 0x100, one counter per symbol
BUCKETS == CharMax + 1

Swap(s, i, j) == [s EXCEPT ![i + 1] = s[j + 1], ![j + 1] = s[i + 1]]

\* exclusive_sum_at storing the sum that includes the value
exclusive_sum_at_inclusive(st, i) ==
    [values |-> Set(st.values, i, st.sum + At(st.values, i)),
     sum |-> st.sum + At(st.values, i)]

\* for value in values { let old = replace(value, sum); sum += old }
exclusive_sum_at(st, i) ==
    [values |-> Set(st.values, i, st.sum), sum |-> st.sum + At(st.values, i)]

exclusive_sum(values) ==
    For(exclusive_sum_at, [values |-> values, sum |-> 0], 0, Len(values)).values

\* one iteration of the while loop of move_elements_in_place;
\* st = [indices, buckets, i, events]
move_step(txt, st) ==
    LET suffix == At(st.indices, st.i) IN
    IF debug /\ suffix > Len(txt) THEN [st EXCEPT !.events = {"panic"}]
    ELSE IF suffix >= Len(txt) THEN [st EXCEPT !.events = {"ub"}]
    ELSE LET bucket == At(txt, suffix)
             offset == At(st.buckets, bucket)
         IN  IF st.i < offset THEN [st EXCEPT !.i = @ + 1]
             ELSE IF offset = st.i
             THEN [st EXCEPT !.i = @ + 1,
                             !.buckets = Set(@, bucket, offset + 1)]
             ELSE IF offset >= Len(st.indices)
             THEN [st EXCEPT !.events = {"panic"}]
             ELSE [st EXCEPT !.indices = Swap(@, st.i, offset),
                             !.buckets = Set(@, bucket, offset + 1)]

move_elements_in_place(indices, txt, buckets) ==
    While(LAMBDA st : st.events = {} /\ st.i < Len(st.indices),
          LAMBDA st : move_step(txt, st),
          [indices |-> indices, buckets |-> exclusive_sum(buckets), i |-> 0,
           events |-> {}],
          2 * Len(indices))

\* the scan of suffix_sort: buckets[text[index]] += 1 for the non-empty suffixes
scan_counts(indices, txt) ==
    [c \in 1..BUCKETS |->
        Cardinality({i \in 1..Len(indices) :
                        indices[i] < Len(txt) /\ At(txt, indices[i]) = c - 1})]

\* the scan recording slot 0, not the slot it met the empty suffix in
last_empty_slot0(indices, txt) == 0

\* the position of the empty suffix the scan leaves in `empty`: the last one
last_empty(indices, txt) ==
    CHOOSE i \in 0..(Len(indices) - 1) :
        /\ At(indices, i) = Len(txt)
        /\ \A j \in (i + 1)..(Len(indices) - 1) : At(indices, j) # Len(txt)

Result(indices, events) == [indices |-> indices, events |-> events]

\* The calls of suffix_sort are run on an explicit call stack rs.work, the
\* innermost call last.  A call works on the slice indices[lo..hi) and on the
\* text without its first `skip` symbols; it is either in its `loop` (pc =
\* "loop") or in the loop over the bucket ends (pc = "buckets", at bucket c).
Call(lo, hi, skip) ==
    [pc |-> "loop", lo |-> lo, hi |-> hi, skip |-> skip, buckets |-> <<>>,
     c |-> 0, last_end |-> 0]

Return(rs) == [rs EXCEPT !.work = Prefix(@, Len(@) - 1)]
Goto(rs, f) == [rs EXCEPT !.work = [@ EXCEPT ![Len(@)] = f]]
Raise(rs, events) == [rs EXCEPT !.events = @ \cup events]
Stopped(rs) == rs.events \cap {"panic", "ub"} # {}

\* one iteration of the `loop` of suffix_sort, and on break the call of
\* move_elements_in_place
suffix_sort_loop(txt, rs, f) ==
    LET t       == Suffix(txt, f.skip)
        indices == SubSeq(rs.indices, f.lo + 1, f.hi)
        n       == Len(indices)
        empties == {i \in 0..(n - 1) : At(indices, i) = Len(t)}
        multi   == IF Cardinality(empties) > 1 THEN {"multi_empty"} ELSE {}
        swapped == IF empties = {} THEN indices
                   ELSE Swap(indices, 0, last_empty(indices, t))
        lo1     == IF empties = {} THEN f.lo ELSE f.lo + 1
        rest    == IF empties = {} THEN swapped ELSE Tail(swapped)
        counts  == scan_counts(indices, t)
        rs1     == Raise([rs EXCEPT !.indices = Patch(@, f.lo, swapped)], multi)
    IN  IF t = <<>> THEN Return(rs)
        ELSE IF \/ \E i \in 1..n : indices[i] > Len(t)
                \/ debug /\ Cardinality(empties) > 1
        THEN Raise(rs, multi \cup {"panic"})
        ELSE IF debug /\ ((empties # {} /\ n < 2) \/ rest = <<>>)
        THEN Raise(rs1, {"panic"})
        ELSE IF rest = <<>> \/ At(rest, 0) >= Len(t)
        THEN Raise(rs1, {"ub"})
        ELSE IF counts[At(t, At(rest, 0)) + 1] = Len(rest)
        THEN IF Len(rest) >= 2
             THEN Goto(rs1, Call(lo1, f.hi, f.skip + 1))
             ELSE Return(rs1)
        ELSE LET st == move_elements_in_place(rest, t, counts) IN
             Goto(Raise([rs1 EXCEPT !.indices = Patch(@, lo1, st.indices)],
                        st.events),
                  [pc |-> "buckets", lo |-> lo1, hi |-> f.hi, skip |-> f.skip,
                   buckets |-> st.buckets, c |-> 0, last_end |-> 0])

\* one iteration of the loop over the bucket ends: a bucket of two or more
\* indices is a call of suffix_sort on the text without its first symbol
suffix_sort_buckets(rs, f) ==
    IF f.c >= Len(f.buckets) THEN Return(rs)
    ELSE LET bucket_end == At(f.buckets, f.c)
             next       == [f EXCEPT !.c = @ + 1, !.last_end = bucket_end]
         IN  IF bucket_end < f.last_end
             THEN Raise(rs, {IF debug THEN "panic" ELSE "ub"})
             ELSE IF bucket_end - f.last_end >= 2
             THEN IF bucket_end > f.hi - f.lo THEN Raise(rs, {"ub"})
                  ELSE [rs EXCEPT !.work =
                            Append(Goto(rs, next).work,
                                   Call(f.lo + f.last_end, f.lo + bucket_end,
                                        f.skip + 1))]
             ELSE Goto(rs, next)

\* the innermost call takes its next step
suffix_sort_step(txt, rs) ==
    IF rs.work[Len(rs.work)].pc = "loop"
    THEN suffix_sort_loop(txt, rs, rs.work[Len(rs.work)])
    ELSE suffix_sort_buckets(rs, rs.work[Len(rs.work)])

\* unsafe fn suffix_sort(indices, text): the call and everything it calls
suffix_sort(indices, txt) ==
    LET rs == While(LAMBDA r : r.work # <<>> /\ ~Stopped(r),
                    LAMBDA r : suffix_sort_step(txt, r),
                    [indices |-> indices, events |-> {},
                     work |-> <<Call(0, Len(indices), 0)>>],
                    Len(indices) + BUCKETS)
    IN  Result(rs.indices, rs.events)

\* pub unsafe fn sort(indices, text)
radix_sort(indices, txt) ==
    IF Len(indices) <= 1 THEN Result(indices, {})
    ELSE suffix_sort(indices, txt)

\* the indices 0..len-1 as values of the index type
identity(len) == [i \in 1..len |-> from_index(i - 1)]

\* assert!(text.len() < T::MAX); sort the identity permutation 0..n
make_suffix_array(txt) ==
    IF ~(Len(txt) < IMAX) THEN Result(<<>>, {"panic"})
    ELSE radix_sort(identity(Len(txt)), txt)

(***************************************************************************)
(* The inputs of a run.                                                    *)
(***************************************************************************)
\* the narrowest index type admissible for a text of length n: n <= I::MAX - 1
RECURSIVE NarrowBits(_, _)
NarrowBits(n, w) == IF n <= 2 ^ w - 2 THEN w ELSE NarrowBits(n, w + 1)

\* longer texts: one whose reduced string needs a recursion of its own, one of
\* the largest length a 4-bit index admits, one whose recursion needs more
\* buckets than the caller's, one of the largest length a 5-bit index admits
LongTexts ==
    { <<1, 0, 1, 0, 0, 1, 0, 1, 0, 0, 1, 0, 1, 0, 0, 1, 0, 1>>,
      <<0, 0, 0, 1, 0, 1, 0, 1, 0, 1, 0, 1, 0, 1>>,
      <<1, 0, 0, 0, 1, 0, 0, 1, 0, 0, 1, 1, 0, 1, 0, 1, 0, 1, 1, 0, 1>>,
      <<1, 0, 1, 1, 0, 1, 0, 1, 1, 0, 1, 0, 1, 1, 0, 1, 0, 1, 1, 1, 1, 1, 0, 0,
        0, 0, 0, 0, 1, 1>> }

Texts == UNION {[1..n -> 0..CharMax] : n \in 0..ShortLen}
         \cup UNION {[1..n -> {0, 1}] : n \in 0..MaxLen}
         \cup LongTexts

\* initial contents of SA and of the type array: whatever the caller left there
JunkSA(n, j) == CASE j = 0 -> Fill(n, 0)
                  [] j = 1 -> Fill(n, IMAX)
                  [] OTHER -> [i \in 1..n |-> (3 * i + 1) % Modulus]
JunkTypes(n, j) == CASE j = 0 -> Fill(n, "L")
                     [] j = 1 -> Fill(n, "S")
                     [] OTHER -> [i \in 1..n |-> IF i % 2 = 0 THEN "L" ELSE "S"]

\* bucket vectors handed to sort: zero-filled of several lengths, and with one
\* non-zero entry
Buckets0 == {Fill(len, 0) : len \in {0, CharMax, CharMax + 1, CharMax + 2}}
BucketsDirty == {Set(Fill(CharMax + 1, 0), 0, 2),
                 Set(Fill(CharMax + 1, 0), CharMax, 2),
                 Set(Fill(CharMax + 2, 0), CharMax + 1, 1)}

\* what sort accepts and buckets_count expects: long enough and zero-filled
BucketsValid == {Fill(len, 0) : len \in {CharMax + 1, CharMax + 2}}

NoRadix == [done |-> FALSE, indices |-> <<>>, events |-> {}]

Init ==
    /\ text \in Texts
    /\ debug \in BOOLEAN
    /\ bits \in {NarrowBits(Len(text), 1), WideBits}
    /\ B \in Buckets0 \cup BucketsDirty
    /\ \E j \in 0..2 : /\ j # 0 => B \in BucketsValid
                       /\ SA = JunkSA(Len(text), j)
                       /\ types = JunkTypes(Len(text), j)
    /\ stack = <<>>
    /\ outcome = "init"
    /\ wrapped = FALSE
    /\ entry = [SA |-> SA, types |-> types, B |-> B]
    /\ calls = <<>>
    /\ radix = NoRadix
    /\ radix_all = NoRadix

(***************************************************************************)
(* sais::sort and the blocks of induced_sort.                              *)
(***************************************************************************)
Frame(txt) == [text |-> txt, n |-> Len(txt), pc |-> "classify",
               k |-> 0, rlen |-> 0, max_order |-> 0, old_len |-> 0]

Top == stack[Len(stack)]
SetTop(f) == [stack EXCEPT ![Len(stack)] = f]
Running(pc) == outcome = "running" /\ stack # <<>> /\ Top.pc = pc

\* the machine of the innermost call: its suffix slice is SA[0..n)
TopMachine == Machine(Prefix(SA, Top.n), B)

\* what a block leaves behind: the arrays, and the panic if there was one
Leave(m, f) ==
    /\ SA' = Splice(SA, m.sa)
    /\ B' = m.b
    /\ wrapped' = (wrapped \/ m.wrap)
    /\ IF m.ok THEN /\ outcome' = outcome
                    /\ stack' = SetTop(f)
       ELSE /\ outcome' = "panicked"
            /\ stack' = stack

\* the assertion with one more bucket than symbols required
sort_assert_one_more == IF Len(B) = 0 THEN ~debug ELSE Len(B) - 1 >= CharMax + 1

\* assert!(buckets.len() - 1 >= C::MAX) on usize
sort_assert == IF Len(B) = 0 THEN ~debug ELSE Len(B) - 1 >= CharMax

\* pub fn sort: the three assertions, then induced_sort
Sort ==
    /\ outcome = "init"
    /\ IF Len(text) = Len(SA) /\ Len(text) = Len(types) /\ sort_assert
       THEN /\ outcome' = "running"
            /\ stack' = <<Frame(text)>>
       ELSE /\ outcome' = "panicked"
            /\ stack' = stack
    /\ UNCHANGED <<text, debug, bits, SA, types, B, wrapped, entry, calls,
                   radix, radix_all>>

\* induced_sort: the debug assertions and classify(text, types)
classify_ok(f) ==
    /\ debug => \A i \in 1..f.n : f.text[i] < Len(B)
    /\ f.n # 0

Classify ==
    /\ Running("classify")
    /\ IF classify_ok(Top)
       THEN /\ \E ty \in {classify(Top.text, Prefix(types, Top.n))} :
                    types' = Splice(types, ty)
            /\ stack' = SetTop([Top EXCEPT !.pc = "induce"])
            /\ outcome' = outcome
       ELSE /\ types' = types
            /\ stack' = stack
            /\ outcome' = "panicked"
    /\ UNCHANGED <<text, debug, bits, SA, B, wrapped, entry, calls, radix,
                   radix_all>>

\* let reduced = induce(text, types, suffix_array, buckets)
Induce ==
    /\ Running("induce")
    /\ \E r \in {induce(Top.text, Prefix(types, Top.n), TopMachine)} :
         \E m \in {IF debug /\ r.m.ok /\ r.some
                        /\ (r.max_order > r.rlen \/ r.k # r.rlen)
                    THEN Panic(r.m) ELSE r.m} :
            Leave(m, [Top EXCEPT !.pc = IF r.some THEN "reduced" ELSE "final",
                                 !.k = r.k, !.rlen = r.rlen,
                                 !.max_order = r.max_order])
    /\ UNCHANGED <<text, debug, bits, types, entry, calls, radix, radix_all>>

\* the guard comparing with the length, not the length less one
recurse_guard_len(f) == f.max_order < f.rlen

\* if max_order < reduced_str.len() - 1: resize the buckets and recurse on
\* reduced_str with suffix_array = lms_suffixes_sorted, types[..k]
recurse_guard(f) == f.max_order < f.rlen - 1

Recurse ==
    /\ Running("reduced")
    /\ recurse_guard(Top)
    /\ B' = Resize(B, Top.max_order + 1, from_index(0))
    /\ stack' = Append(SetTop([Top EXCEPT !.pc = "restore", !.old_len = Len(B)]),
                       Frame(SubSeq(SA, Top.k + 1, Top.k + Top.rlen)))
    /\ calls' = Append(calls, [n |-> Top.n, n1 |-> Top.rlen,
                                max_order |-> Top.max_order,
                                old_len |-> Len(B)])
    /\ UNCHANGED <<text, debug, bits, SA, types, outcome, wrapped, entry,
                   radix, radix_all>>

\* else: reduced_str is unique => this is the order
Unique ==
    /\ Running("reduced")
    /\ ~recurse_guard(Top)
    /\ stack' = SetTop([Top EXCEPT !.pc = "place"])
    /\ UNCHANGED <<text, debug, bits, SA, types, B, outcome, wrapped, entry,
                   calls, radix, radix_all>>

\* the body of the loop that gathers the LMS positions of the text, in text
\* order, into suffix_indices (the memory of reduced_str); st = [ind, offset, ok]
gather_at(ty, st, suffix) ==
    IF ~st.ok THEN st
    ELSE IF ~from_index_ok(suffix) THEN [st EXCEPT !.ok = FALSE]
    ELSE IF is_lms(from_index(suffix), ty)
    THEN IF st.offset >= Len(st.ind) THEN [st EXCEPT !.ok = FALSE]
         ELSE [st EXCEPT !.ind = Set(st.ind, st.offset, from_index(suffix)),
                         !.offset = st.offset + 1]
    ELSE st

\* suffix_array[i] = suffix_indices[suffix_array[i]], for i in 0..lms_count
unname_at(ind, m, i) ==
    IF ~m.ok THEN m
    ELSE IF i >= Len(m.sa) \/ At(m.sa, i) >= Len(ind) THEN Panic(m)
    ELSE [m EXCEPT !.sa = Set(m.sa, i, At(ind, At(m.sa, i)))]

\* the restore re-classifying types[..k], one entry short
restore_len_short(f) == f.k

\* the prefix of the type array that the restore re-classifies
restore_len(f) == f.k + 1

\* after the recursive call: restore the types and the buckets, then turn the
\* suffix array of the reduced string into LMS positions of the text
restore_types(f, ty) ==
    Splice(ty, classify_sub_slice(f.text, Prefix(ty, restore_len(f))))

\* restore_buckets without the resize back to old_len
restore_buckets_no_resize(f, b) == Fill(Len(b), from_index(0))

\* buckets.resize(old_len, 0); buckets.fill(0)
restore_buckets(f, b) == Fill(Len(Resize(b, f.old_len, from_index(0))),
                              from_index(0))

\* suffix_indices = reduced_str = sa[k..k + rlen): gather, then un-name
restore_lms(f, ty, m) ==
    LET g  == For(LAMBDA st, suffix : gather_at(ty, st, suffix),
                  [ind |-> SubSeq(m.sa, f.k + 1, f.k + f.rlen),
                   offset |-> 0, ok |-> TRUE], 1, Len(ty))
        m0 == [m EXCEPT !.sa = Prefix(m.sa, f.k) \o g.ind
                                   \o Suffix(m.sa, f.k + f.rlen)]
    IN  IF g.ok THEN For(LAMBDA st, i : unname_at(g.ind, st, i), m0, 0, f.k)
        ELSE Panic(m0)

Restore ==
    /\ Running("restore")
    /\ \E ty \in {restore_types(Top, types)} :
         /\ types' = ty
         /\ \E m \in {restore_lms(Top, Prefix(ty, Top.n),
                                   Machine(Prefix(SA, Top.n),
                                           restore_buckets(Top, B)))} :
               Leave(m, [Top EXCEPT !.pc = "place"])
    /\ UNCHANGED <<text, debug, bits, entry, calls, radix, radix_all>>

\* the body of the loop for i in (0..lms_count).rev(): move suffix_array[i] to
\* the tail of its bucket
place_at(txt, m, i) ==
    IF ~m.ok THEN m
    ELSE push_back(txt, [m EXCEPT !.sa = Set(m.sa, i, from_index(IMAX))],
                   At(m.sa, i))

\* place_lms walking the sorted LMS suffixes from left to right
place_lms_forward(txt, m, lms_count) ==
    LET m0 == [m EXCEPT !.sa = Prefix(m.sa, lms_count)
                                 \o Fill(Len(m.sa) - lms_count, from_index(IMAX))]
    IN  into_cleared(For(LAMBDA st, i : place_at(txt, st, i),
                         make_ends(txt, m0), 0, lms_count))

place_lms(txt, m, lms_count) ==
    LET m0 == [m EXCEPT !.sa = Prefix(m.sa, lms_count)
                                 \o Fill(Len(m.sa) - lms_count, from_index(IMAX))]
    IN  into_cleared(ForRev(LAMBDA st, i : place_at(txt, st, i),
                            make_ends(txt, m0), 0, lms_count))

PlaceLms ==
    /\ Running("place")
    /\ \E m \in {place_lms(Top.text, TopMachine, Top.k)} :
          Leave(m, [Top EXCEPT !.pc = "final"])
    /\ UNCHANGED <<text, debug, bits, types, entry, calls, radix, radix_all>>

\* induce_ls(text, types, buckets, suffix_array), and the call returns
FinalInduce ==
    /\ Running("final")
    /\ \E m \in {induce_ls(Top.text, Prefix(types, Top.n), TopMachine)} :
       /\ SA' = Splice(SA, m.sa)
       /\ B' = m.b
       /\ wrapped' = (wrapped \/ m.wrap)
       /\ IF m.ok
          THEN /\ stack' = Prefix(stack, Len(stack) - 1)
               /\ outcome' = IF Len(stack) = 1 THEN "returned" ELSE outcome
          ELSE /\ stack' = stack
               /\ outcome' = "panicked"
    /\ UNCHANGED <<text, debug, bits, types, entry, calls, radix, radix_all>>

SaisNext == Sort \/ Classify \/ Induce \/ Recurse \/ Unique \/ Restore
            \/ PlaceLms \/ FinalInduce

\* the two radix sorts are run on the same text once sais::sort has ended
Ended == outcome \in {"returned", "panicked"}

MakeSuffixArray ==
    /\ Ended
    /\ ~radix.done
    /\ \E r \in {make_suffix_array(text)} :
       radix' = [done |-> TRUE, indices |-> r.indices, events |-> r.events]
    /\ UNCHANGED <<text, debug, bits, SA, types, B, stack, outcome, wrapped,
                   entry, calls, radix_all>>

\* radix_sort::sort on all n + 1 suffixes, the empty one included
RadixSortAll ==
    /\ radix.done
    /\ ~radix_all.done
    /\ \E r \in {radix_sort(identity(Len(text) + 1), text)} :
       radix_all' = [done |-> TRUE, indices |-> r.indices, events |-> r.events]
    /\ UNCHANGED <<text, debug, bits, SA, types, B, stack, outcome, wrapped,
                   entry, calls, radix>>

Next == SaisNext \/ MakeSuffixArray \/ RadixSortAll

Spec == Init /\ [][Next]_vars

(***************************************************************************)
(* Reference definitions the claims are stated with.                       *)
(***************************************************************************)
\* T[i..] < T[j..] lexicographically, for i # j: after a common prefix of
\* some length d, T[i..] ends or has the smaller symbol
SuffixLess(txt, i, j) ==
    \E d \in 0..(Len(txt) - i) :
        /\ j + d <= Len(txt)
        /\ \A e \in 0..(d - 1) : At(txt, i + e) = At(txt, j + e)
        /\ \/ i + d = Len(txt)
           \/ j + d < Len(txt) /\ At(txt, i + d) < At(txt, j + d)

IsPermutation(sa, n) ==
    /\ Len(sa) = n
    /\ \A v \in 0..(n - 1) : \E i \in 1..n : sa[i] = v

IsSuffixArray(sa, txt) ==
    /\ IsPermutation(sa, Len(txt))
    /\ \A i \in 1..(Len(txt) - 1) : SuffixLess(txt, sa[i], sa[i + 1])

\* the canonical L/S type of position i: L at the end; else decided by the
\* first later symbol that differs from T[i], L if there is none
CanonicalType(txt, i) ==
    LET later == {j \in (i + 1)..(Len(txt) - 1) : At(txt, j) # At(txt, i)} IN
    IF later = {} THEN "L"
    ELSE LET j == CHOOSE x \in later : \A y \in later : x <= y IN
         IF At(txt, j) > At(txt, i) THEN "S" ELSE "L"

CanonicalTypes(txt) == [i \in 1..Len(txt) |-> CanonicalType(txt, i - 1)]

BZero(b) == \A i \in 1..Len(b) : b[i] = 0

\* the precondition of sort as the code has it: a non-empty text, enough
\* buckets for every symbol, all of them zero
ValidInput == /\ Len(text) >= 1
              /\ Len(entry.B) >= CharMax + 1
              /\ BZero(entry.B)

Returned == outcome = "returned"
Recursed == calls # <<>>

(***************************************************************************)
(* The claims.                                                             *)
(***************************************************************************)

\* C1: for every non-empty text, with B zero-filled and long enough and any
\* initial contents of SA and of the type array, sort returns normally and SA
\* is the suffix array of T: a permutation of [0, n) with T[SA[i]..] strictly
\* below T[SA[i+1]..] for every i.
C1_SuffixArray ==
    ValidInput => /\ outcome # "panicked"
                  /\ Returned => IsSuffixArray(SA, text)

\* a run on a text whose LMS names tie (recursive branch), started with junk
\* in SA and in the type array, has returned the suffix array
C1_Witness ==
    /\ ValidInput /\ Returned /\ Recursed
    /\ \E i \in 1..Len(text) : entry.SA[i] # 0
    /\ IsSuffixArray(SA, text)

\* C2: for every text with n >= 1 the array sais::sort produces equals,
\* element for element, the array radix_sort::make_suffix_array produces.
C2_SameAsRadix ==
    (ValidInput /\ Returned /\ radix.done)
        => /\ radix.events = {}
           /\ radix.indices = SA

C2_Witness ==
    /\ ValidInput /\ Returned /\ Recursed /\ radix.done
    /\ Len(text) >= 7
    /\ radix.indices = SA

\* C3: for the empty text, with B of valid length, sort returns normally
\* without any failure and leaves SA = [].
C3_EmptyTextReturns ==
    (Len(text) = 0 /\ entry.B \in BucketsValid /\ outcome # "init")
        => outcome \in {"running", "returned"} /\ SA = <<>>

AssertFailed == outcome = "panicked" /\ stack = <<>>
Untouched == SA = entry.SA /\ types = entry.types /\ B = entry.B

\* C5 as claimed: the assertion is |B| >= |Sigma| + 1; sort fails it, before
\* any write, for every B with fewer entries (|B| = |Sigma| and |B| = 0
\* included) and proceeds otherwise.
C5_SigmaPlusOne ==
    outcome # "init"
        => IF Len(entry.B) < (CharMax + 1) + 1
           THEN AssertFailed /\ Untouched
           ELSE ~AssertFailed

\* C5 as amended: the assertion is |B| - 1 >= C::MAX, that is |B| >= |Sigma|.
\* sort fails it before any write for 1 <= |B| < |Sigma| and proceeds for
\* |B| >= |Sigma|.  For |B| = 0 the subtraction underflows: a build with
\* overflow checks panics there before any write; a build without them
\* passes the assertion and panics later, never returning.
C5_Sigma ==
    outcome # "init"
        => /\ Len(entry.B) \in 1..CharMax => AssertFailed /\ Untouched
           /\ Len(entry.B) >= CharMax + 1 => ~AssertFailed
           /\ (Len(entry.B) = 0 /\ debug) => AssertFailed /\ Untouched
           /\ (Len(entry.B) = 0 /\ ~debug) => ~AssertFailed /\ ~Returned

\* with exactly |Sigma| buckets sort proceeds and returns
C5_Witness ==
    /\ Len(entry.B) = CharMax + 1 /\ BZero(entry.B)
    /\ Returned /\ Len(text) >= 2

\* C6: index-width invariance.  With the narrowest index type that admits n
\* (n <= 2^w - 2) sort produces the same SA as with a wider one, namely the
\* suffix array; no index-typed addition or subtraction wraps; and no stored
\* suffix index or name equals NIL = 2^w - 1, at any recursion level.
NoNil(seq) == \A i \in 1..Len(seq) : seq[i] # IMAX

C6_WidthInvariant ==
    ValidInput
        => /\ ~wrapped
           /\ outcome # "panicked"
           /\ Returned => IsSuffixArray(SA, text) /\ NoNil(SA)
           /\ \A d \in 1..Len(stack) :
                  /\ stack[d].n <= IMAX - 1
                  /\ d > 1 => NoNil(stack[d].text)
           /\ (stack # <<>> /\ Top.pc = "reduced")
                  => NoNil(Prefix(SA, Top.k + Top.rlen))
           /\ (stack # <<>> /\ Top.pc = "place") => NoNil(Prefix(SA, Top.k))

\* a run with the narrowest type, on a text of the largest length it admits,
\* that went through the recursion
C6_Witness ==
    /\ ValidInput /\ Returned /\ Recursed
    /\ bits < WideBits
    /\ Len(text) = 2 ^ bits - 2
    /\ IsSuffixArray(SA, text)

\* C7: radix_sort::sort on the n + 1 indices 0..=n returns a permutation of
\* 0..=n with no adjacent pair out of suffix order and the empty suffix n in
\* slot 0; no scan meets more than one index equal to the current text length.
C7_RadixAll ==
    radix_all.done
        => /\ radix_all.events = {}
           /\ IsPermutation(radix_all.indices, Len(text) + 1)
           /\ radix_all.indices[1] = Len(text)
           /\ \A i \in 1..Len(text) :
                  ~SuffixLess(text, radix_all.indices[i + 1], radix_all.indices[i])

C7_Witness ==
    /\ radix_all.done
    /\ Len(text) >= 7
    /\ radix_all.indices[1] = Len(text)
    /\ radix_all.indices[2] # 0
    /\ radix_all.events = {}

\* C8: when sort returns B has the length it had at entry and is all zero;
\* and at every level, once the recursive call is over and the caller goes
\* on, B is back at the length that level was called with, all zero.
LevelLen(d) == IF d = 1 THEN Len(entry.B) ELSE stack[d - 1].max_order + 1

C8_BucketsRestored ==
    /\ Returned => Len(B) = Len(entry.B) /\ BZero(B)
    /\ (outcome = "running" /\ stack # <<>> /\ Top.pc \in {"place", "final"})
           => Len(B) = LevelLen(Len(stack)) /\ BZero(B)

\* a run has returned whose recursion needed more buckets than the caller had
C8_Witness ==
    /\ Returned
    /\ \E i \in 1..Len(calls) : calls[i].max_order + 1 > calls[i].old_len
    /\ Len(B) = Len(entry.B)

\* the blocks a call of induced_sort still has before it, counted from its pc
PcRank(pc) == CASE pc = "classify" -> 6
                [] pc = "induce"   -> 5
                [] pc = "reduced"  -> 4
                [] pc = "restore"  -> 3
                [] pc = "place"    -> 2
                [] OTHER           -> 1

RECURSIVE FloorLog2(_)
FloorLog2(n) == IF n <= 1 THEN 0 ELSE 1 + FloorLog2(n \div 2)

RECURSIVE RankSum(_)
RankSum(d) == IF d = 0 THEN 0 ELSE PcRank(stack[d].pc) + RankSum(d - 1)

\* a bound on the number of blocks sais::sort still runs: the blocks left in
\* the calls in progress, and 7 for each level the innermost call can still
\* open, its text being halved at least at each level
Measure ==
    CASE outcome = "init" -> 7 + 7 * FloorLog2(Len(text))
      [] outcome = "running" ->
            RankSum(Len(stack))
            + (IF Top.pc \in {"classify", "induce", "reduced"}
               THEN 7 * FloorLog2(Top.n) ELSE 0)
      [] OTHER -> 0

RecursionInv ==
    /\ \A i \in 1..Len(calls) :
           /\ 1 <= calls[i].n1
           /\ calls[i].n1 <= calls[i].n \div 2
           /\ calls[i].max_order + 1 < calls[i].n1
    /\ \A d \in 2..Len(stack) :
           /\ 1 <= stack[d].n
           /\ stack[d].n <= stack[d - 1].n \div 2
           /\ 2 ^ (d - 1) <= Len(text)

\* C9: every recursive call is on a reduced string of length n' with
\* 1 <= n' <= n / 2 and is made only when max_order + 1 < n'; so the depth
\* of the recursion is at most log2 of the length of the text, and sort
\* terminates: every block it runs lowers Measure, a natural number.
C9_Recursion ==
    /\ []RecursionInv
    /\ [][SaisNext => (Measure' < Measure /\ Measure' >= 0)]_vars

\* two nested recursive calls are in progress
C9_Witness == Len(stack) = 3 /\ Len(calls) = 2 /\ outcome = "running"

\* C10: while a recursive call on k LMS positions runs, the entries k..n-1 of
\* the caller's type array stay what the caller's classification made them;
\* after the restore the caller's type array is the canonical classification
\* of its text at every position.
C10_TypesRestored ==
    outcome = "running"
        => /\ \A d \in 1..(Len(stack) - 1) :
                  Suffix(Prefix(types, stack[d].n), stack[d].k)
                      = Suffix(CanonicalTypes(stack[d].text), stack[d].k)
           /\ (stack # <<>> /\ Top.pc \in {"place", "final"})
                  => Prefix(types, Top.n) = CanonicalTypes(Top.text)

\* the caller is past the restore that followed a recursive call
C10_Witness ==
    /\ outcome = "running" /\ stack # <<>>
    /\ Top.pc = "place" /\ Top.old_len > 0
    /\ Prefix(types, Top.n) = CanonicalTypes(Top.text)
    /\ \E i \in 1..Top.k : entry.types[i] # CanonicalTypes(Top.text)[i]

\* the LMS positions of a text with type array ty
LmsPositions(txt, ty) == {i \in 1..(Len(txt) - 1) : is_lms(i, ty)}

\* the name stored for the LMS position i of the innermost call: reduced_str
\* = SA[k..k + rlen) holds the names in text order of the LMS positions
NameOf(i) ==
    At(SA, Top.k + Cardinality({j \in LmsPositions(Top.text, Prefix(types, Top.n))
                                   : j < i}))

\* the LMS substring starting at i with its types: T[i..j] for the next LMS
\* position j, or T[i..n-1] if there is none
LmsSubstring(i) ==
    <<lms_substring(i, Top.text, Prefix(types, Top.n)),
      lms_substring_types(i, Top.text, Prefix(types, Top.n))>>

\* C11: after the first induction and reduce, at every level, lms_sorted
\* holds the LMS positions, two LMS positions have the same name iff their
\* LMS substrings are equal in length, symbols and types, the names do not
\* decrease along lms_sorted, and max_order + 1 is the number of distinct
\* LMS substrings.
C11_LmsEquality ==
    (ValidInput /\ Running("reduced"))
        => LET P == LmsPositions(Top.text, Prefix(types, Top.n)) IN
           /\ Top.k = Cardinality(P)
           /\ Top.rlen = Top.k
           /\ {At(SA, p) : p \in 0..(Top.k - 1)} = P
           /\ \A i, j \in P :
                  (NameOf(i) = NameOf(j)) <=> (LmsSubstring(i) = LmsSubstring(j))
           /\ \A p \in 0..(Top.k - 2) :
                  NameOf(At(SA, p)) <= NameOf(At(SA, p + 1))
           /\ Top.max_order + 1 = Cardinality({LmsSubstring(i) : i \in P})

\* a reduced string of the outer call in which two LMS positions share a name
\* and two others do not
C11_Witness ==
    /\ ValidInput /\ Running("reduced") /\ Len(stack) = 1
    /\ \E i, j \in LmsPositions(text, types) :
           i # j /\ NameOf(i) = NameOf(j) /\ LmsSubstring(i) = LmsSubstring(j)
    /\ \E i, j \in LmsPositions(text, types) :
           NameOf(i) # NameOf(j) /\ LmsSubstring(i) # LmsSubstring(j)

\* the bucket of symbol c in the suffix array of txt: the slots
\* [BucketStart, BucketEnd), as many as c has occurrences
Occurrences(txt, c) == Cardinality({p \in 1..Len(txt) : txt[p] = c})
BucketStart(txt, c) == Cardinality({p \in 1..Len(txt) : txt[p] < c})
BucketEnd(txt, c) == BucketStart(txt, c) + Occurrences(txt, c)

\* one step of induce_ls under observation: st.m is the machine before the
\* step and m2 the machine after it.  A cursor that moved tells the write:
\* a head cursor wrote at its old value, a tail cursor at its new one.
\* st = [m, inside, cursors, written]
Watch(txt, st, m2, head) ==
    LET moved == {c \in 0..(Len(m2.b) - 1) : At(m2.b, c) # At(st.m.b, c)} IN
    [m       |-> m2,
     inside  |-> /\ st.inside
                 /\ m2.ok
                 /\ \A c \in moved :
                        LET index == IF head THEN At(st.m.b, c) ELSE At(m2.b, c)
                        IN  /\ index < Len(m2.sa)
                            /\ At(m2.sa, index) < Len(txt)
                            /\ At(txt, At(m2.sa, index)) = c
                            /\ BucketStart(txt, c) <= index
                            /\ index < BucketEnd(txt, c),
     cursors |-> /\ st.cursors
                 /\ \A c \in 0..(Len(m2.b) - 1) :
                        IF head THEN At(m2.b, c) <= BucketEnd(txt, c)
                        ELSE At(m2.b, c) >= BucketStart(txt, c),
     written |-> [c \in 1..Len(m2.b) |->
                     st.written[c] + IF (c - 1) \in moved THEN 1 ELSE 0]]

\* induce_ls run step by step under observation
WatchedInduceLs(txt, ty, m) ==
    LET m1   == make_starts(txt, m)
        s0   == [m |-> m1, inside |-> TRUE, cursors |-> TRUE,
                 written |-> Fill(Len(m.b), 0)]
        last == from_index(Len(m.sa) - 1)
        s1   == IF m1.ok /\ At(ty, last) = "L"
                THEN Watch(txt, s0, push_front(txt, m1, last), TRUE)
                ELSE s0
        s2   == For(LAMBDA st, i :
                        Watch(txt, st, l_pass_at(txt, ty, st.m, i), TRUE),
                    s1, 0, Len(m.sa))
        s3   == [s2 EXCEPT !.m = make_ends(txt, into_cleared(s2.m))]
        s4   == ForRev(LAMBDA st, i :
                           Watch(txt, st, s_pass_at(txt, ty, st.m, i), FALSE),
                       s3, 0, Len(m.sa))
    IN  [s4 EXCEPT !.m = into_cleared(s4.m)]

\* the run of induce_ls on (txt, ty, m) kept the bucket discipline
Disciplined(txt, ty, m) ==
    LET w == WatchedInduceLs(txt, ty, m) IN
    /\ w.m = induce_ls(txt, ty, m)
    /\ w.m.ok
    /\ w.inside
    /\ w.cursors
    /\ \A c \in 0..(Len(m.b) - 1) : At(w.written, c) = Occurrences(txt, c)

\* C12: in every run of induce_ls, the first induction from the LMS seeds and
\* the final one, at every level: each write of a suffix j lands inside the
\* bucket of T[j]; no head cursor passes the end of its bucket and no tail
\* cursor goes below the start of its bucket; and after both passes each
\* bucket has received as many writes as its symbol has occurrences.
C12_BucketDiscipline ==
    ValidInput
        => /\ Running("final")
                  => Disciplined(Top.text, Prefix(types, Top.n), TopMachine)
           /\ Running("induce")
                  => LET st == seed(Top.text, Prefix(types, Top.n), TopMachine)
                     IN  st.lms_count > 1
                             => Disciplined(Top.text, Prefix(types, Top.n), st.m)

\* the first induction of a recursive call is about to run on a reduced
\* string with several LMS positions and a symbol that occurs more than once
C12_Witness ==
    /\ ValidInput /\ Running("induce") /\ Len(stack) = 2
    /\ seed(Top.text, Prefix(types, Top.n), TopMachine).lms_count > 1
    /\ \E c \in 0..(Len(B) - 1) : Occurrences(Top.text, c) > 1
    /\ Disciplined(Top.text, Prefix(types, Top.n),
                   seed(Top.text, Prefix(types, Top.n), TopMachine).m)

\* the text falls somewhere and rises somewhere later
HasValley(txt) ==
    \E i, j \in 0..(Len(txt) - 2) :
        /\ i < j
        /\ At(txt, i) > At(txt, i + 1)
        /\ At(txt, j) < At(txt, j + 1)

\* induce returned None: the call went from induce straight to the final
\* induction
NoneBranch == Running("final") /\ Top.k = 0

\* C13 as stated: the zero-LMS branch is taken only for texts of length at
\* most 2.
C13_ZeroLmsOnlyShort == (ValidInput /\ NoneBranch) => Top.n <= 2

\* C13: the zero-LMS branch is taken exactly for the texts that never rise
\* after having fallen, whatever their length: these have no LMS position,
\* every text with n <= 2 is one of them, and the final induction then
\* starts from the zeroed suffix array.
C13_ZeroLmsNoValley ==
    (ValidInput /\ Running("final"))
        => /\ (Top.k = 0) <=> ~HasValley(Top.text)
           /\ (Top.k = 0)
                <=> (LmsPositions(Top.text, Prefix(types, Top.n)) = {})
           /\ Top.n <= 2 => Top.k = 0
           /\ Top.k = 0 => Prefix(SA, Top.n) = Fill(Top.n, 0)

\* the zero-LMS branch taken by the outer call on a text of three symbols or
\* more
C13_Witness ==
    /\ ValidInput /\ NoneBranch /\ Len(stack) = 1
    /\ Len(text) >= 3
    /\ ~HasValley(text)

\* the placement loop under observation: st.m is the machine before the step
\* for slot i and m2 the machine after it; the tail cursor that moved tells
\* the destination.  st = [m, forward, kept]
WatchPlace(txt, st, i) ==
    LET m2    == place_at(txt, st.m, i)
        moved == {c \in 0..(Len(m2.b) - 1) : At(m2.b, c) # At(st.m.b, c)}
    IN  [m       |-> m2,
         forward |-> /\ st.forward
                     /\ m2.ok
                     /\ Cardinality(moved) = 1
                     /\ \A c \in moved :
                            /\ At(m2.b, c) >= i
                            /\ At(m2.b, c) < Len(m2.sa)
                            /\ At(m2.sa, At(m2.b, c)) = At(st.m.sa, i),
         kept    |-> st.kept /\ Prefix(m2.sa, i) = Prefix(st.m.sa, i)]

WatchedPlaceLms(txt, m, lms_count) ==
    LET m0 == [m EXCEPT !.sa = Prefix(m.sa, lms_count)
                                 \o Fill(Len(m.sa) - lms_count, from_index(IMAX))]
        w  == ForRev(LAMBDA st, i : WatchPlace(txt, st, i),
                     [m |-> make_ends(txt, m0), forward |-> TRUE, kept |-> TRUE],
                     0, lms_count)
    IN  [w EXCEPT !.m = into_cleared(w.m)]

\* sa2 holds exactly the values of lms, each once, NIL everywhere else, the
\* values with first symbol c in the last slots of the bucket of c and in
\* the order they have in lms
PlacedAtTails(txt, lms, sa2) ==
    LET filled == {p \in 0..(Len(sa2) - 1) : At(sa2, p) # IMAX}
        SlotIn(v) == CHOOSE i \in 0..(Len(lms) - 1) : At(lms, i) = v
    IN  /\ Cardinality(filled) = Len(lms)
        /\ {At(sa2, p) : p \in filled} = {At(lms, i) : i \in 0..(Len(lms) - 1)}
        /\ \A p \in filled :
               LET c == At(txt, At(sa2, p)) IN
               /\ BucketStart(txt, c) <= p
               /\ p < BucketEnd(txt, c)
               /\ \A q \in (p + 1)..(BucketEnd(txt, c) - 1) :
                      /\ q \in filled
                      /\ At(txt, At(sa2, q)) = c
                      /\ SlotIn(At(sa2, p)) < SlotIn(At(sa2, q))

\* C14: in the step that moves the k sorted LMS suffixes from SA[0..k) to
\* their bucket tails, the entry taken from slot i lands at an index >= i and
\* no entry of SA[0..i) is overwritten before it is moved; afterwards SA
\* holds exactly the k LMS positions, NIL elsewhere, and in each bucket the
\* LMS positions sit at the tail in the order they had in SA[0..k).
C14_PlaceLms ==
    (ValidInput /\ Running("place"))
        => LET w   == WatchedPlaceLms(Top.text, TopMachine, Top.k)
               r   == place_lms(Top.text, TopMachine, Top.k)
               lms == Prefix(SA, Top.k)
           IN  /\ w.m = r
               /\ r.ok
               /\ w.forward
               /\ w.kept
               /\ {At(lms, i) : i \in 0..(Top.k - 1)}
                      = LmsPositions(Top.text, Prefix(types, Top.n))
               /\ Cardinality(LmsPositions(Top.text, Prefix(types, Top.n)))
                      = Top.k
               /\ PlacedAtTails(Top.text, lms, r.sa)

\* the placement is about to run with two LMS positions of one bucket, and
\* an entry that lands in the slot it was taken from
C14_Witness ==
    /\ ValidInput /\ Running("place") /\ Top.k >= 3
    /\ \E i, j \in 0..(Top.k - 1) :
           i # j /\ At(Top.text, At(SA, i)) = At(Top.text, At(SA, j))
    /\ \E i \in 0..(Top.k - 1) :
           At(place_lms(Top.text, TopMachine, Top.k).sa, i) = At(SA, i)
    /\ PlacedAtTails(Top.text, Prefix(SA, Top.k),
                     place_lms(Top.text, TopMachine, Top.k).sa)

====
